---------------------------- MODULE Spec2Model ----------------------------
(***************************************************************************)
(* TelemetryOps control plane (src/services/controlplane/main.cpp): the    *)
(* poller thread, the HTTP request handlers and main's stop/join, over the *)
(* four mutexes and the shared maps and counters.                          *)
(*                                                                         *)
(* Numbers: the code's doubles are modelled as scaled integers.  Latency   *)
(* is in milliseconds; drop_rate and link quality are in hundredths        *)
(* (0.05 is 5, 0.7 is 70).  Only the order of the values matters to the    *)
(* comparisons made by eval_alerts.                                        *)
(*                                                                         *)
(* Variables named h_... are history variables: they record what the      *)
(* program did (what was copied when, what was attempted in a tick) and    *)
(* never influence a guard or a program variable.                          *)
(***************************************************************************)
EXTENDS Integers, Sequences, FiniteSets, TLC

(***************************************************************************)
(* Bounds of the model.                                                    *)
(***************************************************************************)
\* poll ticks started before the poller is held at its loop test
MaxCycles == 2
(***************************************************************************)
(* Program constants.                                                      *)
(***************************************************************************)
DefaultLatencyP95Ms == 200
DefaultDropRate == 5
DefaultMinLinkQuality == 70
DefaultWindowS == 600

\* struct Thresholds with its default member initialisers
DefaultThresholds ==
    [latency_p95_ms |-> DefaultLatencyP95Ms, drop_rate |-> DefaultDropRate,
     min_link_quality |-> DefaultMinLinkQuality, window_s |-> DefaultWindowS]

\* the initial value of main's watched vector
DefaultWatched == <<"SAT-001", "SAT-002", "SAT-003", "SAT-004", "SAT-005">>

\* the model starts with the first two of them watched; every entity the
\* model ever watches is one of these two
InitWatched == <<DefaultWatched[1], DefaultWatched[2]>>

Range(s) == {s[k] : k \in DOMAIN s}

SatIds == Range(InitWatched)

(***************************************************************************)
(* JSON values (nlohmann::json): a type tag and a payload.  An object is a *)
(* function from its keys to JSON values.                                  *)
(***************************************************************************)
JNum(n) == [t |-> "num", v |-> n]
JStr(s) == [t |-> "str", s |-> s]
JArr(items) == [t |-> "arr", items |-> items]
JBool(b) == [t |-> "bool", v |-> IF b THEN 1 ELSE 0]

\* json::contains(key) on an object
Contains(j, key) == key \in DOMAIN j

\* json::value(key, default) for a numeric default: the default when the key
\* is absent, the number when it is one, and a type_error otherwise
ValueThrows(j, key) == Contains(j, key) /\ j[key].t # "num"
Value(j, key, default) == IF Contains(j, key) THEN j[key].v ELSE default

EmptyMap == [k \in {} |-> 0]
MapPut(m, k, x) == [y \in DOMAIN m \cup {k} |-> IF y = k THEN x ELSE m[y]]

(***************************************************************************)
(* eval_alerts(metrics, t).  The result is the alert array, or throws when *)
(* json::value meets a field of the wrong type.                            *)
(***************************************************************************)
AggregatorErrorAlert ==
    [severity |-> "HIGH", type |-> "AGGREGATOR_ERROR", message |-> "metrics not ok"]

\* an ok test that only looks for the key
MetricsNotOkOnlyMissing(m) == ~Contains(m, "ok")

MetricsNotOk(m) ==
    \/ ~Contains(m, "ok")
    \/ m["ok"].t # "bool"
    \/ m["ok"].v = 0

\* the three rules with non-strict comparisons
ThresholdAlertsNonStrict(m, th) ==
    LET p95 == Value(m, "latency_p95_ms", 0)
        dr == Value(m, "drop_rate", 0)
        lq == Value(m, "avg_link_quality", 0)
        a1 == IF p95 >= th.latency_p95_ms
              THEN <<[severity |-> "MED", type |-> "LATENCY_P95",
                      value |-> p95, threshold |-> th.latency_p95_ms]>>
              ELSE <<>>
        a2 == IF dr >= th.drop_rate
              THEN <<[severity |-> "HIGH", type |-> "DROP_RATE",
                      value |-> dr, threshold |-> th.drop_rate]>>
              ELSE <<>>
        a3 == IF lq <= th.min_link_quality
              THEN <<[severity |-> "MED", type |-> "LINK_QUALITY",
                      value |-> lq, threshold |-> th.min_link_quality]>>
              ELSE <<>>
    IN  a1 \o a2 \o a3

ThresholdAlerts(m, th) ==
    LET p95 == Value(m, "latency_p95_ms", 0)
        dr == Value(m, "drop_rate", 0)
        lq == Value(m, "avg_link_quality", 0)
        a1 == IF p95 > th.latency_p95_ms
              THEN <<[severity |-> "MED", type |-> "LATENCY_P95",
                      value |-> p95, threshold |-> th.latency_p95_ms]>>
              ELSE <<>>
        a2 == IF dr > th.drop_rate
              THEN <<[severity |-> "HIGH", type |-> "DROP_RATE",
                      value |-> dr, threshold |-> th.drop_rate]>>
              ELSE <<>>
        a3 == IF lq < th.min_link_quality
              THEN <<[severity |-> "MED", type |-> "LINK_QUALITY",
                      value |-> lq, threshold |-> th.min_link_quality]>>
              ELSE <<>>
    IN  a1 \o a2 \o a3

\* eval_alerts without the test of count
eval_alerts_no_count_test(m, th) ==
    IF MetricsNotOk(m)
    THEN [throws |-> FALSE, alerts |-> <<AggregatorErrorAlert>>]
    ELSE IF \/ ValueThrows(m, "latency_p95_ms")
            \/ ValueThrows(m, "drop_rate")
            \/ ValueThrows(m, "avg_link_quality")
    THEN [throws |-> TRUE, alerts |-> <<>>]
    ELSE [throws |-> FALSE, alerts |-> ThresholdAlerts(m, th)]

eval_alerts(m, th) ==
    IF MetricsNotOk(m)
    THEN [throws |-> FALSE, alerts |-> <<AggregatorErrorAlert>>]
    ELSE IF ValueThrows(m, "count")
    THEN [throws |-> TRUE, alerts |-> <<>>]
    ELSE IF Value(m, "count", 0) = 0
    THEN [throws |-> FALSE, alerts |-> <<>>]
    ELSE IF \/ ValueThrows(m, "latency_p95_ms")
            \/ ValueThrows(m, "drop_rate")
            \/ ValueThrows(m, "avg_link_quality")
    THEN [throws |-> TRUE, alerts |-> <<>>]
    ELSE [throws |-> FALSE, alerts |-> ThresholdAlerts(m, th)]

(***************************************************************************)
(* What the aggregator can answer to the poller's GET /metrics.            *)
(***************************************************************************)
MetricsJson(count, p95, dr, lq) ==
    [ok |-> JBool(TRUE), count |-> JNum(count), drop_rate |-> JNum(dr),
     latency_p95_ms |-> JNum(p95), avg_link_quality |-> JNum(lq)]

\* three samples, p95 above the default latency threshold only
SlowMetrics == MetricsJson(3, 250, 0, 90)
\* a successful answer over an empty window
EmptyMetrics == MetricsJson(0, 0, 0, 0)
\* a 200 answer whose body says ok:false
NotOkMetrics == [ok |-> JBool(FALSE), error |-> JStr("sqlite step failed")]
\* a 200 answer with ok:true whose count is a string
BadTypeMetrics == [ok |-> JBool(TRUE), count |-> JStr("3")]

MetricsBodies == {SlowMetrics, EmptyMetrics, NotOkMetrics, BadTypeMetrics}

\* kind: no response at all (timeout, refused), a status other than 200, a
\* 200 whose body json::parse rejects, a 200 with a JSON body
Responses ==
    {[kind |-> "none", body |-> EmptyMap], [kind |-> "status", body |-> EmptyMap],
     [kind |-> "garbage", body |-> EmptyMap]}
    \cup {[kind |-> "json", body |-> b] : b \in MetricsBodies}

(***************************************************************************)
(* Request bodies of POST /config and POST /watched.  parsed is FALSE for  *)
(* a body json::parse rejects.                                             *)
(***************************************************************************)
Unparseable == [parsed |-> FALSE, j |-> EmptyMap]
Parsed(j) == [parsed |-> TRUE, j |-> j]

\* the order in which POST /config looks for its fields
ConfigFields == <<"latency_p95_ms", "drop_rate", "min_link_quality", "window_s">>

\* two fields named, both numbers
RelaxBody == [latency_p95_ms |-> JNum(300), window_s |-> JNum(60)]
\* a valid field followed by a field of the wrong type
HalfBadBody == [latency_p95_ms |-> JNum(300), drop_rate |-> JStr("high")]

ConfigBodies == {Parsed(RelaxBody), Parsed(HalfBadBody), Unparseable}

FirstSat == InitWatched[1]
LastSat == InitWatched[Len(InitWatched)]

\* {"sats":[]}
EmptySatsBody == [sats |-> JArr(<<>>)]
\* {"sats":["<last>"]}: every entity but the last is removed
OnlyLastBody == [sats |-> JArr(<<JStr(LastSat)>>)]
\* {"sats":[7,"<first>",...,"<last>"]}: the non-string is skipped
MixedBody == [sats |-> JArr(<<JNum(7)>> \o [k \in DOMAIN InitWatched |-> JStr(InitWatched[k])])]
\* {"sats":"<first>"}
NotArrayBody == [sats |-> JStr(FirstSat)]

WatchedBodies ==
    {Parsed(EmptySatsBody), Parsed(OnlyLastBody), Parsed(MixedBody),
     Parsed(NotArrayBody), Unparseable}

\* the loop of POST /watched: the strings of the array, in order
RECURSIVE StringsOf(_)
StringsOf(items) ==
    IF items = <<>> THEN <<>>
    ELSE (IF Head(items).t = "str" THEN <<Head(items).s>> ELSE <<>>)
         \o StringsOf(Tail(items))

\* the handler threads of the HTTP server
Workers == {"w1"}

(***************************************************************************)
(* State.                                                                  *)
(***************************************************************************)
VARIABLES
    \* main's locals shared by reference with the poller and the handlers
    thresholds, thresholds_mu, watched, watched_mu, stop,
    \* file-scope state
    g_state_mu, g_last_metrics_by_sat, g_last_alerts_by_sat,
    g_alert_mu, g_alert_type_counts, g_poll_cycles, g_poll_failures,
    \* the poller thread: its position, and its locals t, sats, the index of
    \* sat_id in sats, metrics, alerts
    p_pc, t, sats, p_i, metrics, alerts,
    \* main after the poller thread is started
    m_pc,
    \* per handler thread: the request being served, with the handler's
    \* position and locals
    req,
    \* history, per tick: Thresholds and watch-list as held when copied, the
    \* window_s of each fetch, the Thresholds of each evaluation, the entities
    \* attempted in order
    h_tAtCopy, h_watchedAtCopy, h_usedWin, h_usedT, h_attempted,
    \* history, per entity: consecutive completed ticks in which every fetch
    \* of the entity failed, failures_total and the stored pair before the
    \* first of them, and the entity's outcome so far in the tick in progress
    h_run, h_base, h_cur,
    \* history: the passes of the loop test that entered the loop body, the
    \* entity attempts made, and those of them that took a failure path
    h_ticks, h_attempts, h_fails,
    \* history: per alert kind, the alerts of that kind in the pairs the
    \* poller has written
    h_written,
    \* the ingest service and the store: the telemetry table by event_id,
    \* the change count of the connection (sqlite3_changes), the counters,
    \* each handler thread's POST /telemetry, and the answer of the
    \* aggregator's latest GET /metrics
    telemetry, db_changes, g_inserted, g_duplicates, g_telemetry, ireq, out,
    \* history: the POSTs answered 202
    h_accepted,
    \* history of the configuration: the (Thresholds, WatchList) pairs held
    \* between the poller's two copies and, from the second copy to the
    \* tick's first fetch, whether the copied pair is one of them; Thresholds as of the last instant no merge was under way and
    \* whether the poller copied that; per field the value of the last
    \* successful merge that named it
    h_cfgSeen, h_pairHeld, h_thrCommitted, h_tCleanCopy, h_lastMerged,
    \* history: per entity, the pair of the poller's latest write
    h_pair,
    \* history: g_poll_cycles when stop was set
    h_cyclesAtStop,
    \* a call of one of the pure functions, examined on its own: the function,
    \* its arguments and, once it has returned, its result
    call

storeVars == <<thresholds, watched, stop, g_last_metrics_by_sat,
               g_last_alerts_by_sat, g_alert_type_counts, g_poll_cycles,
               g_poll_failures>>
muVars == <<thresholds_mu, watched_mu, g_state_mu, g_alert_mu>>
pollerVars == <<p_pc, t, sats, p_i, metrics, alerts>>
tickHist == <<h_tAtCopy, h_watchedAtCopy, h_usedWin, h_usedT, h_attempted>>
runHist == <<h_run, h_base, h_cur>>
countHist == <<h_ticks, h_attempts, h_fails>>
ingestVars == <<telemetry, db_changes, g_inserted, g_duplicates, g_telemetry, ireq,
                out, h_accepted>>
cfgHist == <<h_cfgSeen, h_pairHeld, h_thrCommitted, h_tCleanCopy, h_lastMerged>>

vars == <<storeVars, muVars, pollerVars, m_pc, req, tickHist, runHist, cfgHist,
          h_pair, h_cyclesAtStop, call, countHist, h_written, ingestVars>>

\* the values of "type" that eval_alerts gives an alert
AlertKinds == {"AGGREGATOR_ERROR", "LATENCY_P95", "DROP_RATE", "LINK_QUALITY"}

\* the number of alerts of the array as whose kind is k
KindCount(as, k) == Cardinality({n \in DOMAIN as : as[n].type = k})

JNull == [t |-> "null"]

\* what the two maps hold for an entity, null for a key a map lacks
Stored(e) ==
    [metrics |-> IF e \in DOMAIN g_last_metrics_by_sat
                 THEN g_last_metrics_by_sat[e] ELSE JNull,
     alerts |-> IF e \in DOMAIN g_last_alerts_by_sat
                THEN JArr(g_last_alerts_by_sat[e]) ELSE JNull]

NoPair == [metrics |-> JNull, alerts |-> JNull]
NoBase == [fail |-> 0, pair |-> NoPair]

\* a handler thread between requests
IdleReq ==
    [pc |-> "idle", route |-> "", status |-> 0, j |-> EmptyMap, k |-> 0,
     next |-> <<>>, sats |-> <<>>, sat_id |-> "", t |-> DefaultThresholds,
     metrics |-> JNull, alerts |-> <<>>,
     before_t |-> DefaultThresholds, before_w |-> <<>>, expect |-> NoPair]

\* no function is examined on its own
NoCall == [fn |-> "none"]

\* the state of the process once main has started the poller
\* the threads of the ingest server that handle requests
IngestWorkers == {"i1", "i2"}

\* a handler thread of ingest between two requests
\* (stored and before are history: whether the event_id was in the table
\* when the statement ran, and the row it then had)
IdleIngest == [pc |-> "idle", j |-> EmptyMap, parsed |-> FALSE, stored |-> FALSE,
               before |-> EmptyMap, status |-> 0, inserted |-> FALSE]

\* no GET /metrics of the aggregator answered yet
NoOut == [ok |-> FALSE, count |-> 0, drop_rate |-> 0, latency_p50_ms |-> 0,
          latency_p95_ms |-> 0, avg_link_quality |-> 0, sum_sent |-> 0]

\* a new table, the counters at 0
IngestInit ==
    /\ telemetry = EmptyMap
    /\ db_changes = 0
    /\ g_inserted = 0
    /\ g_duplicates = 0
    /\ g_telemetry = 0
    /\ ireq = [w \in IngestWorkers |-> IdleIngest]
    /\ out = NoOut
    /\ h_accepted = 0

ProgramInit ==
    /\ IngestInit
    /\ thresholds = DefaultThresholds
    /\ thresholds_mu = "free"
    /\ watched = InitWatched
    /\ watched_mu = "free"
    /\ stop = FALSE
    /\ g_state_mu = "free"
    /\ g_last_metrics_by_sat = EmptyMap
    /\ g_last_alerts_by_sat = EmptyMap
    /\ g_alert_mu = "free"
    /\ g_alert_type_counts = EmptyMap
    /\ g_poll_cycles = 0
    /\ g_poll_failures = 0
    /\ p_pc = "check"
    /\ t = DefaultThresholds
    /\ sats = <<>>
    /\ p_i = 0
    /\ metrics = EmptyMap
    /\ alerts = <<>>
    /\ m_pc = "listen"
    /\ req = [w \in Workers |-> IdleReq]
    /\ h_tAtCopy = DefaultThresholds
    /\ h_watchedAtCopy = <<>>
    /\ h_usedWin = {}
    /\ h_usedT = {}
    /\ h_attempted = <<>>
    /\ h_run = [e \in SatIds |-> 0]
    /\ h_base = [e \in SatIds |-> NoBase]
    /\ h_cur = [e \in SatIds |-> "none"]
    /\ h_ticks = 0
    /\ h_attempts = 0
    /\ h_fails = 0
    /\ h_written = [k \in AlertKinds |-> 0]
    /\ h_cfgSeen = {}
    /\ h_pairHeld = TRUE
    /\ h_thrCommitted = DefaultThresholds
    /\ h_tCleanCopy = TRUE
    /\ h_lastMerged = DefaultThresholds
    /\ h_pair = EmptyMap
    /\ h_cyclesAtStop = 0

Init == ProgramInit /\ call = NoCall

(***************************************************************************)
(* std::lock_guard<std::mutex>: the constructor blocks until the mutex is  *)
(* free, the destructor at the end of the block releases it.  A block that *)
(* holds one statement is one step: acquire, statement, release.  A longer *)
(* block acquires with its first statement and releases with its last.     *)
(***************************************************************************)
\* a lock_guard that does not wait for the mutex
AcquireUnguarded(mu) == TRUE

CanAcquire(mu) == mu = "free"

\* an exception that leaves the poller's thread function calls
\* std::terminate: from then on no thread of the process runs
Running == p_pc # "terminated"

(***************************************************************************)
(* The poller thread.                                                      *)
(***************************************************************************)
\* while (!stop.load())
LoopContinues == ~stop

\* a copy that misses the last member of the struct
CopyThresholdsPartial == [thresholds EXCEPT !.window_s = DefaultWindowS]

\* t = thresholds;
CopyThresholds == thresholds

\* the vector as it was when the thread was started
CopyWatchedStale == InitWatched

\* sats = watched;
CopyWatched == watched

\* the path built from the shared thresholds instead of the copy
FetchWindowLive == thresholds.window_s

\* "&window_s=" + std::to_string(t.window_s)
FetchWindow == t.window_s

\* the Thresholds handed to eval_alerts
EvalThresholds == t

\* !r || r->status != 200, or json::parse throws
IsFetchFailure(r) == r.kind \in {"none", "status", "garbage"}

\* a failure path that forgets the counter
LoseFailure(n) == n

\* g_poll_failures++
BumpFailures(n) == n + 1

\* the poller is between its copy of thresholds and its copy of watched
BetweenCopies == p_pc = "copy_w"

\* the loop test of the poller; the tick bound holds the poller here
P_check ==
    /\ p_pc = "check"
    /\ IF LoopContinues
       THEN g_poll_cycles < MaxCycles /\ p_pc' = "incr"
       ELSE p_pc' = "exited"
    /\ h_ticks' = IF LoopContinues THEN h_ticks + 1 ELSE h_ticks
    /\ UNCHANGED <<call, ingestVars, h_written, h_attempts, h_fails, storeVars, muVars, t, sats, p_i, metrics, alerts, m_pc, req,
                   tickHist, runHist, cfgHist, h_pair, h_cyclesAtStop>>

\* g_poll_cycles++, and the declarations of t and sats
\* a tick that leaves the cycle counter alone
SkipCycle(n) == n

\* g_poll_cycles++;
BumpCycles(n) == n + 1

P_incr ==
    /\ p_pc = "incr"
    /\ g_poll_cycles' = BumpCycles(g_poll_cycles)
    /\ t' = DefaultThresholds
    /\ sats' = <<>>
    /\ p_i' = 0
    /\ p_pc' = "copy_t"
    /\ h_tAtCopy' = DefaultThresholds
    /\ h_watchedAtCopy' = <<>>
    /\ h_usedWin' = {}
    /\ h_usedT' = {}
    /\ h_attempted' = <<>>
    /\ h_cur' = [e \in SatIds |-> "none"]
    /\ h_base' = [e \in SatIds |->
                    IF h_run[e] = 0
                    THEN [fail |-> g_poll_failures, pair |-> Stored(e)]
                    ELSE h_base[e]]
    /\ h_pairHeld' = TRUE
    /\ h_tCleanCopy' = TRUE
    /\ UNCHANGED <<call, ingestVars, h_written, countHist, thresholds, watched, stop, g_last_metrics_by_sat,
                   g_last_alerts_by_sat, g_alert_type_counts, g_poll_failures,
                   muVars, metrics, alerts, m_pc, req, h_run, h_cfgSeen,
                   h_thrCommitted, h_lastMerged, h_pair, h_cyclesAtStop>>

\* { lock_guard lock(thresholds_mu); t = thresholds; }
P_copy_t ==
    /\ p_pc = "copy_t"
    /\ CanAcquire(thresholds_mu)
    /\ t' = CopyThresholds
    /\ p_pc' = "copy_w"
    /\ h_tAtCopy' = thresholds
    /\ h_tCleanCopy' = (t' = h_thrCommitted)
    /\ h_cfgSeen' = {<<thresholds, watched>>}
    /\ UNCHANGED <<call, ingestVars, h_written, countHist, storeVars, muVars, sats, p_i, metrics, alerts, m_pc, req,
                   h_watchedAtCopy, h_usedWin, h_usedT, h_attempted, runHist,
                   h_pairHeld, h_thrCommitted, h_lastMerged, h_pair,
                   h_cyclesAtStop>>

\* { lock_guard lock(watched_mu); sats = watched; } and the first test of
\* the for loop
P_copy_w ==
    /\ p_pc = "copy_w"
    /\ CanAcquire(watched_mu)
    /\ sats' = CopyWatched
    /\ p_i' = 1
    /\ p_pc' = IF Len(sats') >= 1 THEN "fetch" ELSE "sleep"
    /\ h_watchedAtCopy' = watched
    /\ h_pairHeld' = (<<t, sats'>> \in h_cfgSeen)
    /\ h_cfgSeen' = {}
    /\ UNCHANGED <<call, ingestVars, h_written, countHist, storeVars, muVars, t, metrics, alerts, m_pc, req, h_tAtCopy,
                   h_usedWin, h_usedT, h_attempted, runHist, h_thrCommitted,
                   h_tCleanCopy, h_lastMerged, h_pair, h_cyclesAtStop>>

\* continue, or the end of the loop body: the next entity or the sleep
NextInTick == IF p_i < Len(sats) THEN "fetch" ELSE "sleep"

\* a failure path that drops what is stored for the entity
EraseOnFailure(m, e) == [k \in DOMAIN m \ {e} |-> m[k]]

\* g_poll_failures++; continue; leaves the two maps as they are
RetainOnFailure(m, e) == m

\* agg.Get(path) fails, or its body does not parse
P_fetch_fail ==
    /\ p_pc = "fetch"
    /\ \E r \in Responses : IsFetchFailure(r)
    /\ g_poll_failures' = BumpFailures(g_poll_failures)
    /\ g_last_metrics_by_sat' = RetainOnFailure(g_last_metrics_by_sat, sats[p_i])
    /\ g_last_alerts_by_sat' = RetainOnFailure(g_last_alerts_by_sat, sats[p_i])
    /\ p_pc' = NextInTick
    /\ p_i' = p_i + 1
    /\ h_usedWin' = h_usedWin \cup {FetchWindow}
    /\ h_attempted' = Append(h_attempted, sats[p_i])
    /\ h_cur' = [h_cur EXCEPT ![sats[p_i]] = IF @ = "none" THEN "failed" ELSE @]
    /\ h_pairHeld' = TRUE
    /\ h_attempts' = h_attempts + 1
    /\ h_fails' = h_fails + 1
    /\ UNCHANGED <<call, ingestVars, h_written, h_ticks, thresholds, watched, stop,
                   g_alert_type_counts, g_poll_cycles,
                   muVars, t, sats, metrics, alerts, m_pc, req, h_tAtCopy,
                   h_watchedAtCopy, h_usedT, h_run, h_base, h_cfgSeen, h_thrCommitted, h_tCleanCopy, h_lastMerged, h_pair,
                   h_cyclesAtStop>>

\* agg.Get(path) answers 200 with a JSON body, and eval_alerts returns
P_fetch_ok ==
    /\ p_pc = "fetch"
    /\ \E r \in Responses :
         /\ ~IsFetchFailure(r)
         /\ ~eval_alerts(r.body, EvalThresholds).throws
         /\ metrics' = r.body
         /\ alerts' = eval_alerts(r.body, EvalThresholds).alerts
    /\ p_pc' = "write_m"
    /\ h_usedWin' = h_usedWin \cup {FetchWindow}
    /\ h_usedT' = h_usedT \cup {EvalThresholds}
    /\ h_attempted' = Append(h_attempted, sats[p_i])
    /\ h_cur' = [h_cur EXCEPT ![sats[p_i]] = "ok"]
    /\ h_run' = [h_run EXCEPT ![sats[p_i]] = 0]
    /\ h_base' = [h_base EXCEPT ![sats[p_i]] = NoBase]
    /\ h_pairHeld' = TRUE
    /\ h_attempts' = h_attempts + 1
    /\ UNCHANGED <<call, ingestVars, h_written, h_ticks, h_fails, storeVars, muVars, t, sats, p_i, m_pc, req, h_tAtCopy,
                   h_watchedAtCopy, h_cfgSeen, h_thrCommitted, h_tCleanCopy, h_lastMerged, h_pair, h_cyclesAtStop>>

\* agg.Get(path) answers 200 with a JSON body on which eval_alerts throws:
\* nothing in the thread catches it, std::terminate ends the process
P_fetch_throw ==
    /\ p_pc = "fetch"
    /\ \E r \in Responses :
         /\ ~IsFetchFailure(r)
         /\ eval_alerts(r.body, EvalThresholds).throws
    /\ p_pc' = "terminated"
    /\ h_usedWin' = h_usedWin \cup {FetchWindow}
    /\ h_usedT' = h_usedT \cup {EvalThresholds}
    /\ h_attempted' = Append(h_attempted, sats[p_i])
    /\ h_pairHeld' = TRUE
    /\ h_attempts' = h_attempts + 1
    /\ UNCHANGED <<call, ingestVars, h_written, h_ticks, h_fails, storeVars, muVars, t, sats, p_i, metrics, alerts, m_pc, req,
                   h_tAtCopy, h_watchedAtCopy, runHist, h_cfgSeen, h_thrCommitted, h_tCleanCopy, h_lastMerged, h_pair,
                   h_cyclesAtStop>>

\* lock_guard lock(g_state_mu); g_last_metrics_by_sat[sat_id] = metrics;
P_write_m ==
    /\ p_pc = "write_m"
    /\ CanAcquire(g_state_mu)
    /\ g_state_mu' = "poller"
    /\ g_last_metrics_by_sat' = MapPut(g_last_metrics_by_sat, sats[p_i], metrics)
    /\ p_pc' = "write_a"
    /\ h_pair' = MapPut(h_pair, sats[p_i], [metrics |-> metrics, alerts |-> alerts])
    /\ UNCHANGED <<call, ingestVars, h_written, countHist, thresholds, watched, stop, g_last_alerts_by_sat,
                   g_alert_type_counts, g_poll_cycles, g_poll_failures,
                   thresholds_mu, watched_mu, g_alert_mu, t, sats, p_i, metrics,
                   alerts, m_pc, req, tickHist, runHist, cfgHist, h_cyclesAtStop>>

\* a write that appends the new alerts to those stored
AppendAlerts(m, k, as) ==
    MapPut(m, k, (IF k \in DOMAIN m THEN m[k] ELSE <<>>) \o as)

\* g_last_alerts_by_sat[sat_id] = alerts;
ReplaceAlerts(m, k, as) == MapPut(m, k, as)

\* a block whose lock_guard outlives it
StateLockKept == "poller"

\* the closing brace of the block that writes the pair: the lock_guard on
\* g_state_mu is destroyed
StateLockReleased == "free"

\* g_last_alerts_by_sat[sat_id] = alerts; and the release
P_write_a ==
    /\ p_pc = "write_a"
    /\ g_last_alerts_by_sat' = ReplaceAlerts(g_last_alerts_by_sat, sats[p_i], alerts)
    /\ g_state_mu' = StateLockReleased
    /\ p_pc' = "count"
    /\ h_written' = [k \in AlertKinds |-> h_written[k] + KindCount(alerts, k)]
    /\ UNCHANGED <<call, ingestVars, countHist, thresholds, watched, stop, g_last_metrics_by_sat,
                   g_alert_type_counts, g_poll_cycles, g_poll_failures,
                   thresholds_mu, watched_mu, g_alert_mu, t, sats, p_i, metrics,
                   alerts, m_pc, req, tickHist, runHist, cfgHist, h_pair,
                   h_cyclesAtStop>>

\* the alerts of as that carry a string "type" equal to k
TypedAlerts(as, k) ==
    {n \in DOMAIN as : Contains(as[n], "type") /\ as[n]["type"] = k}

AlertTypes(as) == {as[n]["type"] : n \in {x \in DOMAIN as : Contains(as[x], "type")}}

\* counters that hold the alerts of the latest pair only
CountAlertsOfPair(c, as) ==
    [k \in AlertTypes(as) |-> Cardinality(TypedAlerts(as, k))]

\* g_alert_type_counts[type]++ for every alert of as
CountAlerts(c, as) ==
    [k \in DOMAIN c \cup AlertTypes(as) |->
        (IF k \in DOMAIN c THEN c[k] ELSE 0) + Cardinality(TypedAlerts(as, k))]

\* { lock_guard lock(g_alert_mu); for (auto& a : alerts) ...++; } and the end
\* of the loop body
P_count ==
    /\ p_pc = "count"
    /\ CanAcquire(g_alert_mu)
    /\ g_alert_type_counts' = CountAlerts(g_alert_type_counts, alerts)
    /\ p_pc' = NextInTick
    /\ p_i' = p_i + 1
    /\ metrics' = EmptyMap
    /\ alerts' = <<>>
    /\ UNCHANGED <<call, ingestVars, h_written, countHist, thresholds, watched, stop, g_last_metrics_by_sat,
                   g_last_alerts_by_sat, g_poll_cycles, g_poll_failures,
                   muVars, t, sats, m_pc, req, tickHist, runHist, cfgHist,
                   h_pair, h_cyclesAtStop>>

\* std::this_thread::sleep_for(5 s): the tick is complete
P_sleep ==
    /\ p_pc = "sleep"
    /\ p_pc' = "check"
    /\ h_run' = [e \in SatIds |-> IF h_cur[e] = "failed" THEN h_run[e] + 1 ELSE 0]
    /\ h_base' = [e \in SatIds |-> IF h_cur[e] = "failed" THEN h_base[e] ELSE NoBase]
    /\ h_cur' = [e \in SatIds |-> "none"]
    /\ UNCHANGED <<call, ingestVars, h_written, countHist, storeVars, muVars, t, sats, p_i, metrics, alerts, m_pc, req,
                   tickHist, cfgHist, h_pair, h_cyclesAtStop>>

Poller ==
    \/ P_check \/ P_incr \/ P_copy_t \/ P_copy_w
    \/ P_fetch_fail \/ P_fetch_ok \/ P_fetch_throw
    \/ P_write_m \/ P_write_a \/ P_count \/ P_sleep

(***************************************************************************)
(* The request handlers.  A handler thread w serves one request at a time; *)
(* requests are accepted while svr.listen runs.  What a handler does on    *)
(* its own locals (parsing, validating) belongs to the step of its next    *)
(* access to shared state.                                                 *)
(***************************************************************************)
othersOfHandler == <<stop, g_last_metrics_by_sat, g_last_alerts_by_sat,
                     g_alert_type_counts, g_poll_cycles, g_poll_failures,
                     pollerVars, m_pc, tickHist, runHist, h_pair, h_cyclesAtStop>>

Accepting(w) == m_pc = "listen" /\ req[w].pc = "idle"

\* the pairs (Thresholds, WatchList) held between the poller's two copies
SeenWith(th, wl) == IF BetweenCopies THEN h_cfgSeen \cup {<<th, wl>>} ELSE h_cfgSeen

\* the first field at or after position k that j contains, or one past the
\* last position
RECURSIVE NextPresent(_, _)
NextPresent(j, k) ==
    IF k > Len(ConfigFields) \/ Contains(j, ConfigFields[k]) THEN k
    ELSE NextPresent(j, k + 1)

\* POST /config: json::parse(req.body) throws, the catch answers 400
H_config_bad(w) ==
    /\ Running
    /\ Accepting(w)
    /\ \E b \in ConfigBodies : ~b.parsed
    /\ req' = [req EXCEPT ![w] = [IdleReq EXCEPT !.route = "config", !.pc = "done",
                                                 !.status = 400,
                                                 !.before_t = thresholds]]
    /\ UNCHANGED <<call, ingestVars, h_written, countHist, thresholds, watched, muVars, othersOfHandler, cfgHist>>

\* a merge that runs without the lock_guard
ConfigLockMissing(w) == "free"

\* std::lock_guard<std::mutex> lock(thresholds_mu); in POST /config: the
\* holder of thresholds_mu during the merge
ConfigLockHolder(w) == w

\* POST /config: the body parses, the lock is taken
H_config_lock(w) ==
    /\ Running
    /\ Accepting(w)
    /\ CanAcquire(thresholds_mu)
    /\ thresholds_mu' = ConfigLockHolder(w)
    /\ \E b \in ConfigBodies :
         /\ b.parsed
         /\ req' = [req EXCEPT ![w] =
                      [IdleReq EXCEPT !.route = "config", !.pc = "cfg_field",
                                      !.j = b.j, !.k = NextPresent(b.j, 1),
                                      !.before_t = thresholds]]
    /\ UNCHANGED <<call, ingestVars, h_written, countHist, thresholds, watched, watched_mu, g_state_mu, g_alert_mu,
                   othersOfHandler, cfgHist>>

\* j[f].get<double>() or get<int>() on a value that is no number
FieldThrows(j, f) == j[f].t # "num"

\* thresholds.f = j[f].get<...>();
MergeField(th, j, f) == [th EXCEPT ![f] = j[f].v]

\* if (j.contains(f)) thresholds.f = j[f].get<...>(); for the next field
\* that the body contains
H_config_field(w) ==
    /\ Running
    /\ req[w].pc = "cfg_field"
    /\ req[w].k <= Len(ConfigFields)
    /\ ~FieldThrows(req[w].j, ConfigFields[req[w].k])
    /\ thresholds' = MergeField(thresholds, req[w].j, ConfigFields[req[w].k])
    /\ req' = [req EXCEPT ![w].k = NextPresent(req[w].j, @ + 1)]
    /\ h_cfgSeen' = SeenWith(thresholds', watched)
    /\ UNCHANGED <<call, ingestVars, h_written, countHist, watched, muVars, othersOfHandler, h_pairHeld, h_thrCommitted,
                   h_tCleanCopy, h_lastMerged>>

\* the get throws: the lock_guard is destroyed, the catch answers 400
H_config_throw(w) ==
    /\ Running
    /\ req[w].pc = "cfg_field"
    /\ req[w].k <= Len(ConfigFields)
    /\ FieldThrows(req[w].j, ConfigFields[req[w].k])
    /\ thresholds_mu' = "free"
    /\ req' = [req EXCEPT ![w].pc = "done", ![w].status = 400]
    /\ h_thrCommitted' = thresholds
    /\ UNCHANGED <<call, ingestVars, h_written, countHist, thresholds, watched, watched_mu, g_state_mu, g_alert_mu,
                   othersOfHandler, h_cfgSeen, h_pairHeld, h_tCleanCopy,
                   h_lastMerged>>

\* res.set_content({"ok":true,"thresholds":...}) and the end of the try block
H_config_reply(w) ==
    /\ Running
    /\ req[w].pc = "cfg_field"
    /\ req[w].k > Len(ConfigFields)
    /\ thresholds_mu' = "free"
    /\ req' = [req EXCEPT ![w].pc = "done", ![w].status = 200]
    /\ h_thrCommitted' = thresholds
    /\ h_lastMerged' = [f \in DOMAIN h_lastMerged |->
                          IF Contains(req[w].j, f) THEN req[w].j[f].v
                          ELSE h_lastMerged[f]]
    /\ UNCHANGED <<call, ingestVars, h_written, countHist, thresholds, watched, watched_mu, g_state_mu, g_alert_mu,
                   othersOfHandler, h_cfgSeen, h_pairHeld, h_tCleanCopy>>

\* !j.contains("sats") || !j["sats"].is_array(), or json::parse throws
SatsMalformed(b) ==
    IF ~b.parsed THEN TRUE
    ELSE IF ~Contains(b.j, "sats") THEN TRUE
    ELSE b.j["sats"].t # "arr"

\* a handler without the emptiness test
NextEmptyNever(next) == FALSE

\* next.empty()
NextEmpty(next) == next = <<>>

\* the vector next that POST /watched builds from a well-formed body
NextOf(b) == StringsOf(b.j["sats"].items)

\* POST /watched answers 400
RejectsWatched(b) == IF SatsMalformed(b) THEN TRUE ELSE NextEmpty(NextOf(b))

H_watched_bad(w) ==
    /\ Running
    /\ Accepting(w)
    /\ \E b \in WatchedBodies : RejectsWatched(b)
    /\ req' = [req EXCEPT ![w] = [IdleReq EXCEPT !.route = "watched", !.pc = "done",
                                                 !.status = 400,
                                                 !.before_w = watched]]
    /\ UNCHANGED <<call, ingestVars, h_written, countHist, thresholds, watched, muVars, othersOfHandler, cfgHist>>

\* { lock_guard lock(watched_mu); watched = std::move(next); } and the 200
H_watched_replace(w) ==
    /\ Running
    /\ Accepting(w)
    /\ CanAcquire(watched_mu)
    /\ \E b \in WatchedBodies :
         /\ ~RejectsWatched(b)
         /\ watched' = NextOf(b)
         /\ req' = [req EXCEPT ![w] =
                      [IdleReq EXCEPT !.route = "watched", !.pc = "done",
                                      !.status = 200, !.next = NextOf(b),
                                      !.before_w = watched]]
    /\ h_cfgSeen' = SeenWith(thresholds, watched')
    /\ UNCHANGED <<call, ingestVars, h_written, countHist, thresholds, muVars, othersOfHandler, h_pairHeld,
                   h_thrCommitted, h_tCleanCopy, h_lastMerged>>

\* GET /watched: { lock_guard lock(watched_mu); sats = watched; }
H_getwatched(w) ==
    /\ Running
    /\ Accepting(w)
    /\ CanAcquire(watched_mu)
    /\ req' = [req EXCEPT ![w] = [IdleReq EXCEPT !.route = "getwatched", !.pc = "done",
                                                 !.status = 200, !.sats = watched]]
    /\ UNCHANGED <<call, ingestVars, h_written, countHist, thresholds, watched, muVars, othersOfHandler, cfgHist>>

\* GET /prom: prom_metrics() reads the alert counters under g_alert_mu
H_prom(w) ==
    /\ Running
    /\ Accepting(w)
    /\ CanAcquire(g_alert_mu)
    /\ req' = [req EXCEPT ![w] = [IdleReq EXCEPT !.route = "prom", !.pc = "done",
                                                 !.status = 200]]
    /\ UNCHANGED <<call, ingestVars, h_written, countHist, thresholds, watched, muVars, othersOfHandler, cfgHist>>

\* json{{"ok",false},{"error","no data yet"}} and json::array()
NoDataMetrics == [ok |-> JBool(FALSE), error |-> JStr("no data yet")]
DefaultPair == [metrics |-> NoDataMetrics, alerts |-> <<>>]

\* GET /alerts without sat_id
H_alerts_bad(w) ==
    /\ Running
    /\ Accepting(w)
    /\ req' = [req EXCEPT ![w] = [IdleReq EXCEPT !.route = "alerts", !.pc = "done",
                                                 !.status = 400]]
    /\ UNCHANGED <<call, ingestVars, h_written, countHist, thresholds, watched, muVars, othersOfHandler, cfgHist>>

\* GET /alerts?sat_id=...: { lock_guard lock(thresholds_mu); t = thresholds; }
H_alerts_copy_t(w) ==
    /\ Running
    /\ Accepting(w)
    /\ CanAcquire(thresholds_mu)
    /\ \E sid \in SatIds :
         req' = [req EXCEPT ![w] = [IdleReq EXCEPT !.route = "alerts",
                                                   !.pc = "al_read_m",
                                                   !.sat_id = sid,
                                                   !.t = thresholds]]
    /\ UNCHANGED <<call, ingestVars, h_written, countHist, thresholds, watched, muVars, othersOfHandler, cfgHist>>

\* lock_guard lock(g_state_mu);
\* if (g_last_metrics_by_sat.count(sat_id)) metrics = g_last_metrics_by_sat[sat_id];
H_alerts_read_m(w) ==
    /\ Running
    /\ req[w].pc = "al_read_m"
    /\ CanAcquire(g_state_mu)
    /\ g_state_mu' = w
    /\ req' = [req EXCEPT
                 ![w].pc = "al_read_a",
                 ![w].metrics = IF req[w].sat_id \in DOMAIN g_last_metrics_by_sat
                                THEN g_last_metrics_by_sat[req[w].sat_id]
                                ELSE NoDataMetrics,
                 ![w].expect = IF req[w].sat_id \in DOMAIN h_pair
                               THEN h_pair[req[w].sat_id] ELSE DefaultPair]
    /\ UNCHANGED <<call, ingestVars, h_written, countHist, thresholds, watched, thresholds_mu, watched_mu, g_alert_mu,
                   othersOfHandler, cfgHist>>

\* if (g_last_alerts_by_sat.count(sat_id)) alerts = g_last_alerts_by_sat[sat_id];
\* the release, and the answer
H_alerts_read_a(w) ==
    /\ Running
    /\ req[w].pc = "al_read_a"
    /\ g_state_mu' = "free"
    /\ req' = [req EXCEPT
                 ![w].pc = "done", ![w].status = 200,
                 ![w].alerts = IF req[w].sat_id \in DOMAIN g_last_alerts_by_sat
                               THEN g_last_alerts_by_sat[req[w].sat_id]
                               ELSE <<>>]
    /\ UNCHANGED <<call, ingestVars, h_written, countHist, thresholds, watched, thresholds_mu, watched_mu, g_alert_mu,
                   othersOfHandler, cfgHist>>

\* the response is sent and the thread takes the next request
H_done(w) ==
    /\ Running
    /\ req[w].pc = "done"
    /\ req' = [req EXCEPT ![w] = IdleReq]
    /\ UNCHANGED <<call, ingestVars, h_written, countHist, thresholds, watched, muVars, othersOfHandler, cfgHist>>

Handler(w) ==
    \/ H_config_bad(w) \/ H_config_lock(w) \/ H_config_field(w)
    \/ H_config_throw(w) \/ H_config_reply(w)
    \/ H_watched_bad(w) \/ H_watched_replace(w)
    \/ H_getwatched(w) \/ H_prom(w)
    \/ H_alerts_bad(w) \/ H_alerts_copy_t(w) \/ H_alerts_read_m(w)
    \/ H_alerts_read_a(w)
    \/ H_done(w)

(***************************************************************************)
(* main, after it has started the poller: svr.listen returns once no       *)
(* handler is running, stop is set, the poller is joined.                  *)
(***************************************************************************)
M_listen_returns ==
    /\ Running
    /\ m_pc = "listen"
    /\ \A w \in Workers : req[w].pc = "idle"
    /\ m_pc' = "stop"
    /\ UNCHANGED <<call, ingestVars, h_written, countHist, storeVars, muVars, pollerVars, req, tickHist, runHist,
                   cfgHist, h_pair, h_cyclesAtStop>>

\* stop.store(true);
M_stop ==
    /\ Running
    /\ m_pc = "stop"
    /\ stop' = TRUE
    /\ m_pc' = "join"
    /\ h_cyclesAtStop' = g_poll_cycles
    /\ UNCHANGED <<call, ingestVars, h_written, countHist, thresholds, watched, g_last_metrics_by_sat,
                   g_last_alerts_by_sat, g_alert_type_counts, g_poll_cycles,
                   g_poll_failures, muVars, pollerVars, req, tickHist, runHist,
                   cfgHist, h_pair>>

\* a detached poller: main does not wait
JoinWithoutWaiting == TRUE

\* poller.join() returns once the thread function has returned
PollerJoined == p_pc = "exited"

M_join ==
    /\ Running
    /\ m_pc = "join"
    /\ PollerJoined
    /\ m_pc' = "done"
    /\ UNCHANGED <<call, ingestVars, h_written, countHist, storeVars, muVars, pollerVars, req, tickHist, runHist,
                   cfgHist, h_pair, h_cyclesAtStop>>

Main == M_listen_returns \/ M_stop \/ M_join

Next == Poller \/ Main \/ \E w \in Workers : Handler(w)

Spec == Init /\ [][Next]_vars

(***************************************************************************)
(* Properties.                                                             *)
(***************************************************************************)
\* the poller has made both copies of the tick in progress
InTick == p_pc \in {"fetch", "write_m", "write_a", "count", "sleep"}

\* the pair GET /alerts answered with
Answered(w) == [metrics |-> req[w].metrics, alerts |-> req[w].alerts]

AnsweredAlerts(w) ==
    req[w].pc = "done" /\ req[w].route = "alerts" /\ req[w].status = 200

\* C1: whatever the interleaving of the poller's writes with GET /alerts,
\* the metrics and the alerts of an answer are those of one and the same
\* write of the poller for that entity (the latest one when the read began),
\* or the two defaults when the entity was never written.
C1_PairReadTogether ==
    \A w \in Workers : AnsweredAlerts(w) => Answered(w) = req[w].expect

\* C1 happens: an answer carries a written pair while the poller waits to
\* overwrite the same entity with a different pair
C1_ReadUnderWrite ==
    \E w \in Workers :
        /\ AnsweredAlerts(w)
        /\ req[w].expect # DefaultPair
        /\ p_pc = "write_m"
        /\ sats[p_i] = req[w].sat_id
        /\ [metrics |-> metrics, alerts |-> alerts] # Answered(w)

\* C2: for an entity whose every fetch failed in each of the last h_run
\* completed ticks, failures_total has grown by at least h_run since before
\* the first of them, and the stored pair is what it was before the first.
C2_FailuresRetainState ==
    \A e \in SatIds :
        h_run[e] > 0 =>
            /\ g_poll_failures >= h_base[e].fail + h_run[e]
            /\ Stored(e) = h_base[e].pair

\* C2 happens: one entity has failed in two consecutive ticks, another was
\* stored by the first tick and failed in the second
C2_TwoFailingTicks ==
    \E e1, e2 \in SatIds :
        /\ h_run[e1] = 2
        /\ h_run[e2] = 1
        /\ Stored(e2) # NoPair
        /\ g_poll_failures >= 3

\* C3 as stated: from the completion of a replace that removes an entity
\* (no replace call is being served and the entity is not in the watch-list)
\* until the entity is put back, no step modifies the entity's stored pair,
\* a step of a tick that copied the old watch-list included.
C3_RemovedNeverWritten ==
    [][\A e \in SatIds :
          (/\ e \notin Range(watched)
           /\ e \notin Range(watched')
           /\ \A w \in Workers : req[w].route # "watched")
              => Stored(e)' = Stored(e)]_vars

\* C3, amended: a step modifies an entity's stored pair only within a tick
\* whose copy of the watch-list was taken while the entity was in it; a tick
\* that copies the watch-list after the removal never writes the entity.
C3_WrittenOnlyIfCopied ==
    [][\A e \in SatIds :
          Stored(e)' # Stored(e) => e \in Range(h_watchedAtCopy)]_vars

\* C3 happens: the tick in flight finishes the write of an entity that a
\* completed replace has removed, over a pair stored by an earlier tick
C3_InFlightWrite ==
    /\ p_pc = "count"
    /\ sats[p_i] \notin Range(watched)
    /\ sats[p_i] \in Range(h_watchedAtCopy)
    /\ g_poll_cycles = 2
    /\ \A w \in Workers : req[w].pc = "idle"

\* C4: within a tick every fetch carries the window_s, and every evaluation
\* the Thresholds, that the shared Thresholds held when the tick copied
\* them; the entities attempted are, in order, those the watch-list held
\* when the tick copied it, all of them once the tick reaches its sleep.
C4_TickUsesItsCopies ==
    InTick =>
        /\ h_usedWin \subseteq {h_tAtCopy.window_s}
        /\ h_usedT \subseteq {h_tAtCopy}
        /\ Len(h_attempted) <= Len(h_watchedAtCopy)
        /\ h_attempted = SubSeq(h_watchedAtCopy, 1, Len(h_attempted))
        /\ p_pc = "sleep" => h_attempted = h_watchedAtCopy

\* C4 happens: a tick has attempted its two entities and evaluated one,
\* after a merge and a replace completed behind its copies
C4_ConfigChangedMidTick ==
    /\ p_pc = "sleep"
    /\ Len(h_attempted) = 2
    /\ h_usedT # {}
    /\ thresholds.window_s # h_tAtCopy.window_s
    /\ watched # h_watchedAtCopy
    /\ \A w \in Workers : req[w].pc = "idle"

\* C5 as stated: the pair (Thresholds, WatchList) a tick has copied is one
\* the shared Thresholds and watch-list held together at one instant of the
\* copy-out.
C5_PairHeldTogether == h_pairHeld

\* C5, amended: each of the two copies is atomic on its own: the tick works
\* with the Thresholds as held at the instant of the first copy and with the
\* watch-list as held at the instant of the second.
C5_EachCopyAtomic ==
    /\ (p_pc = "copy_w" \/ InTick) => t = h_tAtCopy
    /\ InTick => sats = h_watchedAtCopy

\* C5 happens: a merge and a replace both completed between the two copies
C5_PairNeverHeld ==
    /\ p_pc = "fetch"
    /\ ~h_pairHeld
    /\ t # thresholds
    /\ sats = watched

\* POST /config answered by w
AnsweredConfig(w, status) ==
    req[w].pc = "done" /\ req[w].route = "config" /\ req[w].status = status

\* a merge holds thresholds_mu
MergeUnderWay == \E w \in Workers : req[w].pc = "cfg_field"

\* C6: the Thresholds a tick copies, and so every Thresholds handed to
\* eval_alerts, is the value the shared Thresholds held at an instant when
\* no merge was under way: each field is as it was before a merge call or
\* as it was after that call completed, never a value from the middle of
\* a merge.
C6_NoTornThresholds ==
    /\ h_tCleanCopy
    /\ InTick => h_usedT \subseteq {t}

\* C6 happens: an evaluation has been made in a tick while a merge that
\* has already assigned a field still holds the lock
C6_MergeDuringTick ==
    /\ InTick
    /\ h_usedT # {}
    /\ MergeUnderWay
    /\ thresholds # h_thrCommitted
    /\ thresholds # t

\* C7 as stated: a merge answered with 400 leaves the four fields of the
\* shared Thresholds as they were before the request.
C7_RejectedMergeChangesNothing ==
    \A w \in Workers : AnsweredConfig(w, 400) => thresholds = req[w].before_t

\* POST /watched answered by w
AnsweredWatched(w, status) ==
    req[w].pc = "done" /\ req[w].route = "watched" /\ req[w].status = status

\* C8: the watch-list is never empty, and neither is a copy of it taken by
\* the poller or by GET /watched; a replace answered with 400 leaves the
\* watch-list as it was before the request; a replace answered with 200
\* leaves exactly the list of strings of the request.
C8_WatchListNeverEmpty ==
    /\ Len(watched) > 0
    /\ InTick => Len(sats) > 0
    /\ \A w \in Workers :
         /\ (req[w].pc = "done" /\ req[w].route = "getwatched")
                => Len(req[w].sats) > 0
         /\ AnsweredWatched(w, 400) => watched = req[w].before_w
         /\ AnsweredWatched(w, 200) => (watched = req[w].next /\ req[w].next # <<>>)

\* C8 happens: a replace is answered with 400 after an accepted replace has
\* shortened the watch-list
C8_RejectedAfterReplace ==
    \E w \in Workers :
        /\ AnsweredWatched(w, 400)
        /\ watched # InitWatched
        /\ req[w].before_w = watched

\* C9 as stated: whenever no merge is under way, every field of the shared
\* Thresholds holds the value of the last successful merge that named it,
\* or its default if no successful merge named it.
C9_FieldsHoldLastMerge == ~MergeUnderWay => thresholds = h_lastMerged

\* C10: once stop is set, g_poll_cycles is at most one more than when it
\* was set; the poller leaves its loop only from the loop test, with every
\* entity of the last tick's copied watch-list attempted; main passes the
\* join only after the poller has left its loop.
C10_StopFinishesTick ==
    /\ stop => g_poll_cycles <= h_cyclesAtStop + 1
    /\ p_pc = "exited" => (stop /\ h_attempted = h_watchedAtCopy)
    /\ m_pc = "done" => p_pc = "exited"

\* C10 happens: main has passed the join after a tick that the poller
\* started when stop was already set, and that tick attempted its entities
C10_TickAfterStop ==
    /\ m_pc = "done"
    /\ g_poll_cycles = h_cyclesAtStop + 1
    /\ Len(h_attempted) = 2

(***************************************************************************)
(* Scheduling.  The poller thread and main keep running: a step of theirs  *)
(* that stays possible is eventually taken.  Nothing is assumed about the  *)
(* arrival of requests.                                                    *)
(***************************************************************************)
FairSpec == Spec /\ WF_vars(Poller) /\ WF_vars(Main)

\* C11 as stated: under fair scheduling, with every fetch returning, once
\* stop is set the poller eventually leaves its loop and main eventually
\* passes the join.
C11_StopLeadsToExit == stop ~> (p_pc = "exited" /\ m_pc = "done")

(***************************************************************************)
(* eval_alerts on its own: one call per behaviour, over metrics objects    *)
(* whose fields are absent, well typed or mistyped, and two Thresholds.    *)
(***************************************************************************)
\* a key the object does not have
Absent == [t |-> "absent"]

\* the JSON object with the fields of the record that are not Absent
MkObject(fields) == [k \in {f \in DOMAIN fields : fields[f] # Absent} |-> fields[k]]

OkValues == {Absent, JBool(TRUE), JBool(FALSE), JStr("yes")}
CountValues == {Absent, JNum(0), JNum(3), JStr("3")}
LatencyValues == {JNum(200), JNum(250), JNum(300), JNum(301), JStr("slow")}
DropRateValues == {JNum(5), JNum(6)}
LinkQualityValues == {Absent, JNum(69), JNum(70)}

EvalMetrics ==
    {MkObject([ok |-> o, count |-> c, latency_p95_ms |-> l, drop_rate |-> d,
               avg_link_quality |-> q]) :
        o \in OkValues, c \in CountValues, l \in LatencyValues,
        d \in DropRateValues, q \in LinkQualityValues}

\* the defaults, and the defaults after {"latency_p95_ms":300}
EvalThresholdsValues ==
    {DefaultThresholds, MergeField(DefaultThresholds, RelaxBody, "latency_p95_ms")}

EvalInit ==
    /\ ProgramInit
    /\ call \in {[fn |-> "eval_alerts", state |-> "called", metrics |-> m, t |-> th,
                  alerts |-> <<>>] : m \in EvalMetrics, th \in EvalThresholdsValues}

\* json alerts = eval_alerts(metrics, t);
Call_eval_alerts ==
    /\ call.fn = "eval_alerts"
    /\ call.state = "called"
    /\ LET r == eval_alerts(call.metrics, call.t)
       IN  call' = [call EXCEPT !.state = IF r.throws THEN "thrown" ELSE "returned",
                                !.alerts = r.alerts]
    /\ UNCHANGED <<ingestVars, h_written, storeVars, muVars, pollerVars, m_pc, req, tickHist, runHist,
                   cfgHist, h_pair, h_cyclesAtStop, countHist>>

EvalNext == Call_eval_alerts

EvalSpec == EvalInit /\ [][EvalNext]_vars

\* the call examined is a call of eval_alerts
EvalCalled == call.fn = "eval_alerts"
EvalReturned == call.fn = "eval_alerts" /\ call.state = "returned"

\* metrics has ok = true
OkTrue(m) == Contains(m, "ok") /\ m["ok"] = JBool(TRUE)

\* metrics has a numeric field f
HasNumber(m, f) == Contains(m, f) /\ m[f].t = "num"

\* C12: for metrics with ok = true and count = 0, eval_alerts returns (it
\* does not throw) and returns the empty list, for every Thresholds and
\* whatever the latency, drop-rate and link-quality fields hold.
C12_NoSamplesNoAlerts ==
    (EvalCalled /\ OkTrue(call.metrics) /\ HasNumber(call.metrics, "count")
        /\ call.metrics["count"].v = 0)
    => /\ call.state # "thrown"
       /\ call.state = "returned" => call.alerts = <<>>

\* C12 happens: a call with count = 0 has returned although the latency is
\* a string and the link quality is below the minimum
C12_ZeroCountMistypedFields ==
    /\ EvalReturned
    /\ OkTrue(call.metrics)
    /\ HasNumber(call.metrics, "count")
    /\ call.metrics["count"].v = 0
    /\ call.metrics["latency_p95_ms"].t = "str"
    /\ HasNumber(call.metrics, "avg_link_quality")
    /\ call.metrics["avg_link_quality"].v < call.t.min_link_quality
    /\ call.t # DefaultThresholds

\* metrics has ok = true, count > 0 and three numeric statistics
Measured(m) ==
    /\ OkTrue(m)
    /\ HasNumber(m, "count")
    /\ m["count"].v > 0
    /\ HasNumber(m, "latency_p95_ms")
    /\ HasNumber(m, "drop_rate")
    /\ HasNumber(m, "avg_link_quality")

\* some alert of the list has type k
Fires(as, k) == \E n \in DOMAIN as : as[n].type = k

\* the place of an alert type in the order of the rules
RuleOrder == <<"LATENCY_P95", "DROP_RATE", "LINK_QUALITY">>
RuleRank(k) == CHOOSE n \in DOMAIN RuleOrder : RuleOrder[n] = k

\* C13: for metrics with ok = true, count > 0 and numeric statistics, each
\* of the three rules fires exactly when its strict comparison holds (p95
\* above the latency threshold, drop_rate above its threshold, link quality
\* below the minimum), independently of the other two; an alert carries the
\* severity of its rule (MED, HIGH, MED), the measured value and the
\* threshold compared with; the alerts come in the order LATENCY_P95,
\* DROP_RATE, LINK_QUALITY, each type at most once.
C13_RulesStrictIndependentOrdered ==
    (EvalCalled /\ Measured(call.metrics)) =>
        /\ call.state # "thrown"
        /\ call.state = "returned" =>
             LET m == call.metrics
                 th == call.t
                 as == call.alerts
             IN  /\ \A n \in DOMAIN as : as[n].type \in Range(RuleOrder)
                 /\ Fires(as, "LATENCY_P95")
                        <=> m["latency_p95_ms"].v > th.latency_p95_ms
                 /\ Fires(as, "DROP_RATE") <=> m["drop_rate"].v > th.drop_rate
                 /\ Fires(as, "LINK_QUALITY")
                        <=> m["avg_link_quality"].v < th.min_link_quality
                 /\ \A i, j \in DOMAIN as :
                        i < j => RuleRank(as[i].type) < RuleRank(as[j].type)
                 /\ \A n \in DOMAIN as :
                        /\ as[n].type = "LATENCY_P95" =>
                             as[n] = [severity |-> "MED", type |-> "LATENCY_P95",
                                      value |-> m["latency_p95_ms"].v,
                                      threshold |-> th.latency_p95_ms]
                        /\ as[n].type = "DROP_RATE" =>
                             as[n] = [severity |-> "HIGH", type |-> "DROP_RATE",
                                      value |-> m["drop_rate"].v,
                                      threshold |-> th.drop_rate]
                        /\ as[n].type = "LINK_QUALITY" =>
                             as[n] = [severity |-> "MED", type |-> "LINK_QUALITY",
                                      value |-> m["avg_link_quality"].v,
                                      threshold |-> th.min_link_quality]

\* C13 happens: the latency equals its threshold and fires nothing, while
\* the other two rules fire, in their order
C13_EqualFiresNothing ==
    /\ EvalReturned
    /\ Measured(call.metrics)
    /\ call.metrics["latency_p95_ms"].v = call.t.latency_p95_ms
    /\ Len(call.alerts) = 2
    /\ call.alerts[1].type = "DROP_RATE"
    /\ call.alerts[2].type = "LINK_QUALITY"

\* for metrics whose ok is missing, not a boolean or false, eval_alerts
\* returns exactly one alert, of severity HIGH and of the type kind; and
\* every alert of every returned list has its type among the three rules'
\* types and kind
NotOkGivesOneAlert(kind) ==
    /\ (EvalCalled /\ ~OkTrue(call.metrics)) =>
          /\ call.state # "thrown"
          /\ call.state = "returned" =>
               /\ Len(call.alerts) = 1
               /\ call.alerts[1].severity = "HIGH"
               /\ call.alerts[1].type = kind
    /\ EvalReturned =>
          \A n \in DOMAIN call.alerts :
              call.alerts[n].type \in Range(RuleOrder) \cup {kind}

\* C14 as stated: the single alert for metrics that are not ok has the
\* kind SOURCE_UNAVAILABLE, and the kinds of all alerts are in {LATENCY_P95,
\* DROP_RATE, LINK_QUALITY, SOURCE_UNAVAILABLE}.
C14_SourceUnavailable == NotOkGivesOneAlert("SOURCE_UNAVAILABLE")

\* C14, amended: the single HIGH alert for metrics that are not ok has the
\* type AGGREGATOR_ERROR, no threshold rule is evaluated, and the types of
\* all alerts are in {LATENCY_P95, DROP_RATE, LINK_QUALITY,
\* AGGREGATOR_ERROR}.
C14_AggregatorError == NotOkGivesOneAlert("AGGREGATOR_ERROR")

\* C14 happens: ok is not a boolean, and the statistics are such that the
\* latency rule would fire
C14_NonBooleanOk ==
    /\ EvalReturned
    /\ Contains(call.metrics, "ok")
    /\ call.metrics["ok"].t = "str"
    /\ HasNumber(call.metrics, "count")
    /\ call.metrics["count"].v > 0
    /\ HasNumber(call.metrics, "latency_p95_ms")
    /\ call.metrics["latency_p95_ms"].v > call.t.latency_p95_ms
    /\ Len(call.alerts) = 1

(***************************************************************************)
(* percentile (src/services/aggregator/main.cpp) on its own.  Samples and  *)
(* p are integers; the result is kept in hundredths, which holds the exact *)
(* value of the interpolation for integer samples and integer p.           *)
(***************************************************************************)
\* the longest sample list examined
MaxSamples == 3

SampleValues == {10, 20, 30}
Percents == {0, 25, 50, 95, 100}

SampleLists == UNION {[1..n -> SampleValues] : n \in 0..MaxSamples}

RECURSIVE InsertSorted(_, _)
InsertSorted(x, s) ==
    IF s = <<>> THEN <<x>>
    ELSE IF x <= Head(s) THEN <<x>> \o s
    ELSE <<Head(s)>> \o InsertSorted(x, Tail(s))

\* a percentile that takes the samples in the order given
NotSorted(v) == v

\* std::sort(v.begin(), v.end());
RECURSIVE SortAscending(_)
SortAscending(v) ==
    IF v = <<>> THEN <<>> ELSE InsertSorted(Head(v), SortAscending(Tail(v)))

\* percentile(v, p), in hundredths: idx is p * (n - 1) in hundredths, i its
\* integer part and frac (in hundredths) the rest
percentile(v, p) ==
    IF v = <<>> THEN 0
    ELSE LET s == SortAscending(v)
             idx == p * (Len(v) - 1)
             i == idx \div 100
             frac == idx % 100
         IN  IF i + 1 < Len(v)
             THEN s[i + 1] * (100 - frac) + s[i + 2] * frac
             ELSE s[i + 1] * 100

PctInit ==
    /\ ProgramInit
    /\ call \in {[fn |-> "percentile", state |-> "called", v |-> v, p |-> p,
                  out |-> 0] : v \in SampleLists, p \in Percents}

\* percentile(lat, p) as called by GET /metrics
Call_percentile ==
    /\ call.fn = "percentile"
    /\ call.state = "called"
    /\ call' = [call EXCEPT !.state = "returned", !.out = percentile(call.v, call.p)]
    /\ UNCHANGED <<ingestVars, h_written, storeVars, muVars, pollerVars, m_pc, req, tickHist, runHist,
                   cfgHist, h_pair, h_cyclesAtStop, countHist>>

PctNext == Call_percentile

PctSpec == PctInit /\ [][PctNext]_vars

PctReturned == call.fn = "percentile" /\ call.state = "returned"

\* how often x occurs in the list
Occurrences(s, x) == Cardinality({n \in DOMAIN s : s[n] = x})

\* the ascending list with the same elements as v
Ascending(v) ==
    CHOOSE s \in [DOMAIN v -> Range(v)] :
        /\ \A x \in Range(v) : Occurrences(s, x) = Occurrences(v, x)
        /\ \A i, j \in DOMAIN s : i <= j => s[i] <= s[j]

ListMin(v) == CHOOSE x \in Range(v) : \A y \in Range(v) : x <= y
ListMax(v) == CHOOSE x \in Range(v) : \A y \in Range(v) : x >= y

\* C15: percentile returns 0 for the empty list; otherwise, with s the
\* samples in ascending order, k the integer part of p/100*(n-1) and f its
\* fractional part, it returns s[k] + f * (s[k+1] - s[k]) (positions from
\* 0), whatever the order of the input; p = 0 gives the minimum, p = 100
\* the maximum, every p a value between the two, and
\* percentile([10,20,30], 50) = 20.  Results are in hundredths.
C15_PercentileInterpolates ==
    PctReturned =>
        LET v == call.v
            p == call.p
            n == Len(v)
        IN  IF n = 0 THEN call.out = 0
            ELSE LET s == Ascending(v)
                     k == (p * (n - 1)) \div 100
                     f == (p * (n - 1)) % 100
                 IN  /\ call.out = 100 * s[k + 1]
                            + (IF f > 0 THEN f * (s[k + 2] - s[k + 1]) ELSE 0)
                     /\ p = 0 => call.out = 100 * ListMin(v)
                     /\ p = 100 => call.out = 100 * ListMax(v)
                     /\ 100 * ListMin(v) <= call.out
                     /\ call.out <= 100 * ListMax(v)
                     /\ (v = <<10, 20, 30>> /\ p = 50) => call.out = 2000

\* C15 happens: an unsorted list of three samples, a p whose index falls
\* between two of them, and a result strictly between two samples
C15_UnsortedInterpolated ==
    /\ PctReturned
    /\ call.v = <<30, 10, 20>>
    /\ call.p = 25
    /\ call.out = 1500

(***************************************************************************)
(* Properties of the poller's bookkeeping.                                 *)
(***************************************************************************)
\* the poller is between the two assignments of its state write
WritingPair(e) == g_state_mu = "poller" /\ sats[p_i] = e

\* C16 as stated: a 200 answer whose body carries ok other than true is a
\* fetch failure like the others: the poller does not go on to store it,
\* and no stored metrics ever have ok other than true.
C16_NotOkIsFailure ==
    /\ p_pc \in {"write_m", "write_a", "count"} => OkTrue(metrics)
    /\ \A e \in SatIds :
         Stored(e).metrics # JNull => OkTrue(Stored(e).metrics)

\* C16, amended: an attempt that gets no response, a status other than 200
\* or a body that does not parse is counted in g_poll_failures and leaves
\* the entity's stored pair as it was when the tick began; a 200 answer
\* whose body parses and carries ok other than true is no failure: it is
\* stored, paired with the single alert of type AGGREGATOR_ERROR.
C16_NotOkStoredWithAlert ==
    \A e \in SatIds :
        /\ h_cur[e] = "failed" =>
              /\ Stored(e) = h_base[e].pair
              /\ g_poll_failures > h_base[e].fail
        /\ (Stored(e).metrics # JNull /\ ~OkTrue(Stored(e).metrics)
                /\ ~WritingPair(e)) =>
              /\ Len(Stored(e).alerts.items) = 1
              /\ Stored(e).alerts.items[1].severity = "HIGH"
              /\ Stored(e).alerts.items[1].type = "AGGREGATOR_ERROR"

\* C16 happens: in one tick one entity's fetch has failed, over a pair
\* stored before, and the other entity's ok:false answer has been stored
\* without being counted
C16_FailureAndNotOkStored ==
    \E e1, e2 \in SatIds :
        /\ p_pc = "sleep"
        /\ h_cur[e1] = "failed"
        /\ Stored(e1) # NoPair
        /\ h_cur[e2] = "ok"
        /\ Stored(e2).metrics = NotOkMetrics
        /\ g_poll_failures = 1

\* C17 as stated: in every tick the entities of the copied watch-list are
\* attempted once each, in order, none retried and none skipped, and no
\* response, a mistyped one included, keeps the poller from the remaining
\* entities of the tick or from later ticks: the poller is never ended by
\* what a fetch returned.
C17_ResponseNeverEndsPoller ==
    /\ InTick =>
          /\ Len(h_attempted) <= Len(h_watchedAtCopy)
          /\ h_attempted = SubSeq(h_watchedAtCopy, 1, Len(h_attempted))
    /\ p_pc # "terminated"

\* C18: once the poller has written an entity's pair, the stored metrics
\* are the fetched metrics and the stored alerts are exactly
\* eval_alerts(those metrics, the Thresholds the tick copied), whatever was
\* stored before; the attempt has not been counted as a failure, also when
\* the metrics have count = 0 and the stored alerts are the empty list.
C18_StoredPairIsFetchedPair ==
    p_pc = "count" =>
        /\ Stored(sats[p_i]).metrics = metrics
        /\ ~eval_alerts(metrics, h_tAtCopy).throws
        /\ Stored(sats[p_i]).alerts = JArr(eval_alerts(metrics, h_tAtCopy).alerts)
        /\ g_poll_failures = h_fails
        /\ (OkTrue(metrics) /\ metrics["count"] = JNum(0))
              => Stored(sats[p_i]).alerts = JArr(<<>>)

\* C18 happens: in the second tick a zero-sample answer for the first
\* entity has replaced the pair of the first tick, in which both entities
\* were stored with a latency alert
C18_ZeroSampleClearsAlerts ==
    /\ p_pc = "count"
    /\ g_poll_cycles = 2
    /\ p_i = 1
    /\ metrics = EmptyMetrics
    /\ "LATENCY_P95" \in DOMAIN g_alert_type_counts
    /\ g_alert_type_counts["LATENCY_P95"] = 2
    /\ Stored(sats[p_i]).alerts = JArr(<<>>)


(***************************************************************************)
(* The locks during a fetch.                                               *)
(***************************************************************************)
\* no handler holds the mutex mu
NoHandlerHolds(mu) == mu \notin Workers

\* C19: whenever the poller is inside agg.Get it holds none of
\* thresholds_mu, watched_mu, g_state_mu and g_alert_mu; so every handler
\* step that takes one of them (the merge and the read of the thresholds,
\* the replacement and the read of the watch list, the read of the stored
\* pair, the read of the alert counters) can be taken during the fetch
\* unless another handler holds that mutex
C19_FetchHoldsNoLock ==
    p_pc = "fetch" =>
        /\ thresholds_mu # "poller"
        /\ watched_mu # "poller"
        /\ g_state_mu # "poller"
        /\ g_alert_mu # "poller"
        /\ \A w \in Workers :
             /\ (Accepting(w) /\ NoHandlerHolds(thresholds_mu)) =>
                   /\ ENABLED H_config_lock(w)
                   /\ ENABLED H_alerts_copy_t(w)
             /\ (Accepting(w) /\ NoHandlerHolds(watched_mu)) =>
                   /\ ENABLED H_watched_replace(w)
                   /\ ENABLED H_getwatched(w)
             /\ (Accepting(w) /\ NoHandlerHolds(g_alert_mu)) => ENABLED H_prom(w)
             /\ (req[w].pc = "al_read_m" /\ NoHandlerHolds(g_state_mu)) =>
                   ENABLED H_alerts_read_m(w)
             /\ req[w].pc = "cfg_field" =>
                   ENABLED (H_config_field(w) \/ H_config_throw(w) \/ H_config_reply(w))
             /\ req[w].pc = "al_read_a" => ENABLED H_alerts_read_a(w)

\* C19 happens: during the fetch for the second entity, after the pair of
\* the first was written under g_state_mu, the watch list has been replaced
\* and a reader is holding g_state_mu
C19_HandlersRunDuringFetch ==
    /\ p_pc = "fetch"
    /\ p_i = 2
    /\ sats[1] \in DOMAIN g_last_alerts_by_sat
    /\ watched # h_watchedAtCopy
    /\ \E w \in Workers : req[w].pc = "al_read_a" /\ g_state_mu = w

(***************************************************************************)
(* The counters.  h_ticks counts the ticks started (the loop test that     *)
(* finds stop unset), h_attempts the fetches made, h_fails those of them   *)
(* that failed.                                                            *)
(***************************************************************************)
\* C20: cycles_total is the number of ticks started (the tick that has
\* passed the loop test and not yet reached the increment aside), whatever
\* the fetches of the tick do; failures_total is the number of failed
\* fetches and never exceeds the number of fetches made; and no step
\* decreases either counter or raises it by more than one
C20_CountersCountTicksAndFailures ==
    /\ [](/\ g_poll_cycles = h_ticks - (IF p_pc = "incr" THEN 1 ELSE 0)
          /\ g_poll_failures = h_fails
          /\ g_poll_failures <= h_attempts)
    /\ [][/\ g_poll_cycles' \in {g_poll_cycles, g_poll_cycles + 1}
          /\ g_poll_failures' \in {g_poll_failures, g_poll_failures + 1}
          /\ (p_pc = "incr" /\ p_pc' # "incr") => g_poll_cycles' = g_poll_cycles + 1
          /\ h_attempts' = h_attempts => g_poll_failures' = g_poll_failures]_vars

\* C20 happens: two ticks in which every fetch failed have been counted,
\* and so has each of their failures
C20_AllFailedTicksCounted ==
    /\ p_pc = "sleep"
    /\ g_poll_cycles = 2
    /\ h_attempts >= 3
    /\ g_poll_failures = h_attempts

(***************************************************************************)
(* The alert counters.  h_written counts, per kind, the alerts of the      *)
(* pairs the poller has written.                                           *)
(***************************************************************************)
\* the counter of kind k, 0 for a kind the map lacks
AlertCounter(k) == IF k \in DOMAIN g_alert_type_counts THEN g_alert_type_counts[k] ELSE 0

\* C21: at the end of every tick the counter of each alert kind is the
\* number of alerts of that kind in all the pairs the poller has written,
\* an alert that fires again in a later tick being counted again; the map
\* holds no other kind; and no step decreases a counter
C21_CountersCountWrittenAlerts ==
    /\ [](/\ DOMAIN g_alert_type_counts \subseteq AlertKinds
          /\ p_pc \in {"sleep", "check", "incr", "exited"} =>
                \A k \in AlertKinds : AlertCounter(k) = h_written[k])
    /\ [][/\ DOMAIN g_alert_type_counts \subseteq DOMAIN g_alert_type_counts'
          /\ \A k \in DOMAIN g_alert_type_counts :
                g_alert_type_counts'[k] >= g_alert_type_counts[k]]_vars

\* C21 happens: at the end of the second tick the latency alert has fired
\* in at least three written pairs, so for some entity in both ticks, and
\* has been counted each time
C21_RefiredAlertCountedAgain ==
    /\ p_pc = "sleep"
    /\ g_poll_cycles = 2
    /\ h_written["LATENCY_P95"] >= 3
    /\ AlertCounter("LATENCY_P95") = h_written["LATENCY_P95"]

(***************************************************************************)
(* The ingest service (POST /telemetry) and the aggregator's GET /metrics  *)
(* over the table that ingest fills.  A JSON integer is JInt(q, r), the    *)
(* number q * 2^32 + r with r in the range of int: get<int>() gives r.     *)
(* link_quality and drop_rate are in hundredths, so 1.0 is 100.            *)
(***************************************************************************)
MaxPosts == 3

JInt(q, r) == [t |-> "int", q |-> q, r |-> r]

\* json::is_number_integer() and json::is_number()
IsNumberInteger(x) == x.t = "int"
IsNumber(x) == x.t \in {"int", "num"}

\* get<int>(): the conversion of the stored 64-bit integer to int
GetInt(x) == x.r

\* get<double>() throws type_error unless the value is a number or a boolean
GetDoubleThrows(x) == x.t \notin {"int", "num", "bool"}

\* get<double>() of a value held in hundredths (a number) or in units (an
\* integer or a boolean)
GetDouble(x) == IF x.t = "num" THEN x.v ELSE IF x.t = "bool" THEN 100 * x.v ELSE 100 * x.r

Required == <<"event_id", "sat_id", "ts_ms", "latency_ms", "dropped_packets",
              "sent_packets", "link_quality">>

\* a range test without the upper bound
DroppedNegative(dropped, sent) == dropped < 0

\* dropped < 0 || dropped > sent
DroppedOutOfRange(dropped, sent) == dropped < 0 \/ dropped > sent

\* validate_event(j, err): "valid" for true, "invalid" for false, "throws"
\* when link_quality cannot be read as a double
validate_event(j) ==
    IF \E k \in Range(Required) : ~Contains(j, k) THEN "invalid"
    ELSE IF j["event_id"].t # "str" THEN "invalid"
    ELSE IF j["event_id"].s = "" THEN "invalid"
    ELSE IF j["sat_id"].t # "str" THEN "invalid"
    ELSE IF j["sat_id"].s = "" THEN "invalid"
    ELSE IF ~IsNumberInteger(j["ts_ms"]) THEN "invalid"
    ELSE IF ~IsNumber(j["latency_ms"]) THEN "invalid"
    ELSE IF ~IsNumberInteger(j["dropped_packets"]) THEN "invalid"
    ELSE IF ~IsNumberInteger(j["sent_packets"]) THEN "invalid"
    ELSE IF GetInt(j["sent_packets"]) <= 0 THEN "invalid"
    ELSE IF DroppedOutOfRange(GetInt(j["dropped_packets"]), GetInt(j["sent_packets"]))
         THEN "invalid"
    ELSE IF GetDoubleThrows(j["link_quality"]) THEN "throws"
    ELSE IF GetDouble(j["link_quality"]) < 0 \/ GetDouble(j["link_quality"]) > 100
         THEN "invalid"
    ELSE "valid"

\* the row that insert_event binds from a validated event
RowOf(j) ==
    [sat_id |-> j["sat_id"].s,
     ts_ms |-> GetInt(j["ts_ms"]),
     latency_ms |-> GetDouble(j["latency_ms"]) \div 100,
     dropped_packets |-> GetInt(j["dropped_packets"]),
     sent_packets |-> GetInt(j["sent_packets"]),
     link_quality |-> GetDouble(j["link_quality"])]

\* INSERT OR IGNORE INTO telemetry ... with event_id the primary key
InsertOrIgnore(tbl, j) ==
    IF j["event_id"].s \in DOMAIN tbl THEN tbl
    ELSE MapPut(tbl, j["event_id"].s, RowOf(j))

\* the rows the statement has changed: what sqlite3_changes then reports
ChangesOf(tbl, j) == IF j["event_id"].s \in DOMAIN tbl THEN 0 ELSE 1

\* request bodies of POST /telemetry
Event(id, ts, lat, dropped, sent, lq) ==
    [event_id |-> JStr(id), sat_id |-> JStr("SAT-001"), ts_ms |-> JInt(0, ts),
     latency_ms |-> JInt(0, lat), dropped_packets |-> dropped,
     sent_packets |-> sent, link_quality |-> lq]

ValidEvents ==
    { Event("e1", 1, 10, JInt(0, 1), JInt(0, 2), JNum(50)),
      Event("e1", 2, 30, JInt(0, 0), JInt(0, 4), JNum(90)),
      Event("e2", 2, 20, JInt(0, 2), JInt(0, 2), JNum(100)),
      Event("e2", 2, 20, JInt(1, 1), JInt(1, 2), JBool(TRUE)) }

InvalidEvents ==
    { Event("e1", 1, 10, JInt(0, 0), JInt(0, 0), JNum(50)),
      Event("e1", 1, 10, JInt(0, 0), JInt(1, 0), JNum(50)),
      Event("e1", 1, 10, JInt(0, -1), JInt(0, 2), JNum(50)),
      Event("e2", 1, 10, JInt(0, 3), JInt(0, 2), JNum(50)),
      Event("e2", 1, 10, JInt(0, 1), JInt(0, 2), JNum(150)),
      Event("e2", 1, 10, JInt(0, 1), JInt(0, 2), JNum(-10)),
      Event("e2", 1, 10, JInt(0, 1), JInt(0, 2), JStr("good")),
      Event("e2", 1, 10, JInt(0, 1), JNum(200), JNum(50)),
      Event("", 1, 10, JInt(0, 1), JInt(0, 2), JNum(50)),
      [event_id |-> JStr("e2"), sat_id |-> JStr("SAT-001")] }

TelemetryBodies ==
    {[parsed |-> TRUE, j |-> e] : e \in ValidEvents \cup InvalidEvents}
        \cup {[parsed |-> FALSE, j |-> EmptyMap]}

\* POST /telemetry answers 400: json::parse throws, validate_event returns
\* false, or an exception reaches the catch
Rejects(b) == IF ~b.parsed THEN TRUE ELSE validate_event(b.j) # "valid"

\* POST /telemetry, answered 400
T_reject(w) ==
    /\ ireq[w].pc = "idle"
    /\ g_telemetry < MaxPosts
    /\ g_telemetry' = g_telemetry + 1
    /\ \E b \in TelemetryBodies :
         /\ Rejects(b)
         /\ ireq' = [ireq EXCEPT ![w] = [IdleIngest EXCEPT !.pc = "done", !.j = b.j,
                                                           !.parsed = b.parsed,
                                                           !.status = 400]]
    /\ UNCHANGED <<call, h_written, storeVars, muVars, pollerVars, m_pc, req, tickHist,
                   runHist, cfgHist, h_pair, h_cyclesAtStop, countHist, telemetry,
                   db_changes, g_inserted, g_duplicates, out, h_accepted>>

\* POST /telemetry with a valid event, up to sqlite3_step and
\* sqlite3_finalize in insert_event
T_step(w) ==
    /\ ireq[w].pc = "idle"
    /\ g_telemetry < MaxPosts
    /\ g_telemetry' = g_telemetry + 1
    /\ \E b \in TelemetryBodies :
         /\ ~Rejects(b)
         /\ telemetry' = InsertOrIgnore(telemetry, b.j)
         /\ db_changes' = ChangesOf(telemetry, b.j)
         /\ ireq' = [ireq EXCEPT ![w] =
                       [IdleIngest EXCEPT !.pc = "stepped", !.j = b.j, !.parsed = TRUE,
                                          !.stored = (b.j["event_id"].s \in DOMAIN telemetry),
                                          !.before = IF b.j["event_id"].s \in DOMAIN telemetry
                                                     THEN telemetry[b.j["event_id"].s]
                                                     ELSE EmptyMap]]
    /\ UNCHANGED <<call, h_written, storeVars, muVars, pollerVars, m_pc, req, tickHist,
                   runHist, cfgHist, h_pair, h_cyclesAtStop, countHist,
                   g_inserted, g_duplicates, out, h_accepted>>

\* return sqlite3_changes(db) > 0; the counter, and the 202
T_changes(w) ==
    /\ ireq[w].pc = "stepped"
    /\ LET inserted == db_changes > 0
       IN  /\ g_inserted' = IF inserted THEN g_inserted + 1 ELSE g_inserted
           /\ g_duplicates' = IF inserted THEN g_duplicates ELSE g_duplicates + 1
           /\ ireq' = [ireq EXCEPT ![w].pc = "done", ![w].status = 202,
                                   ![w].inserted = inserted]
    /\ h_accepted' = h_accepted + 1
    /\ UNCHANGED <<call, h_written, storeVars, muVars, pollerVars, m_pc, req, tickHist,
                   runHist, cfgHist, h_pair, h_cyclesAtStop, countHist, telemetry,
                   db_changes, g_telemetry, out>>

\* the response is sent and the thread takes the next request
T_done(w) ==
    /\ ireq[w].pc = "done"
    /\ ireq' = [ireq EXCEPT ![w] = IdleIngest]
    /\ UNCHANGED <<call, h_written, storeVars, muVars, pollerVars, m_pc, req, tickHist,
                   runHist, cfgHist, h_pair, h_cyclesAtStop, countHist, telemetry,
                   db_changes, g_inserted, g_duplicates, g_telemetry, out, h_accepted>>

\* the entities and the lower bounds of ts_ms that GET /metrics is asked for
QuerySats == {"SAT-001", "SAT-002"}
MinTs == {1, 2, 3}

\* select_rows(sat_id, min_ts): the event_ids of the rows selected
select_rows(sat_id, min_ts) ==
    {id \in DOMAIN telemetry :
        telemetry[id].sat_id = sat_id /\ telemetry[id].ts_ms >= min_ts}

\* the sum of a field over the rows of ids
RECURSIVE SumOf(_, _)
SumOf(ids, f) ==
    IF ids = {} THEN 0
    ELSE LET id == CHOOSE x \in ids : TRUE
         IN  telemetry[id][f] + SumOf(ids \ {id}, f)

\* the vector lat: the latencies of the rows of ids, in some order
RECURSIVE LatOf(_)
LatOf(ids) ==
    IF ids = {} THEN <<>>
    ELSE LET id == CHOOSE x \in ids : TRUE
         IN  <<telemetry[id].latency_ms>> \o LatOf(ids \ {id})

\* the body of the try block of GET /metrics; the percentiles are in
\* hundredths of a millisecond
MetricsOf(rows) ==
    LET sum_dropped == SumOf(rows, "dropped_packets")
        sum_sent == SumOf(rows, "sent_packets")
        sum_lq == SumOf(rows, "link_quality")
    IN  [ok |-> TRUE,
         count |-> Cardinality(rows),
         drop_rate |-> IF sum_sent > 0 THEN (sum_dropped * 100) \div sum_sent ELSE 0,
         latency_p50_ms |-> percentile(LatOf(rows), 50),
         latency_p95_ms |-> percentile(LatOf(rows), 95),
         avg_link_quality |-> IF rows # {} THEN sum_lq \div Cardinality(rows) ELSE 0,
         sum_sent |-> sum_sent]

\* GET /metrics of the aggregator
A_metrics ==
    /\ \E sat_id \in QuerySats, min_ts \in MinTs :
         out' = MetricsOf(select_rows(sat_id, min_ts))
    /\ UNCHANGED <<call, h_written, storeVars, muVars, pollerVars, m_pc, req, tickHist,
                   runHist, cfgHist, h_pair, h_cyclesAtStop, countHist, telemetry,
                   db_changes, g_inserted, g_duplicates, g_telemetry, ireq, h_accepted>>

Telemetry(w) == T_reject(w) \/ T_step(w) \/ T_changes(w) \/ T_done(w)

IngestNext == A_metrics \/ \E w \in IngestWorkers : Telemetry(w)

IngestSpec == Init /\ [][IngestNext]_vars

\* a POST /telemetry of thread w has just been answered with status
AnsweredTelemetry(w, status) == ireq[w].pc = "done" /\ ireq[w].status = status

NoInsertUnderWay == \A w \in IngestWorkers : ireq[w].pc # "stepped"

\* C23 as stated: a valid event whose event_id is already stored leaves the
\* stored row as it was and is answered inserted = false; and whenever no
\* insert is under way, inserted_total is the number of event_ids stored
\* and inserted_total + duplicates_total the number of POSTs answered 202
C23_IngestIdempotent ==
    /\ \A w \in IngestWorkers :
         (ireq[w].pc \in {"stepped", "done"} /\ ireq[w].stored) =>
             /\ telemetry[ireq[w].j["event_id"].s] = ireq[w].before
             /\ AnsweredTelemetry(w, 202) => ~ireq[w].inserted
    /\ NoInsertUnderWay =>
         /\ g_inserted = Cardinality(DOMAIN telemetry)
         /\ g_inserted + g_duplicates = h_accepted

(***************************************************************************)
(* The four mutexes.  A handler thread that has begun a request keeps      *)
(* running, like the poller and main.                                      *)
(***************************************************************************)
HandlerFairSpec ==
    FairSpec /\ \A w \in Workers : WF_vars(Handler(w) /\ ~Accepting(w))

Threads == {"poller"} \cup Workers

\* the mutexes that thread th holds
HeldBy(th) ==
    {n \in 1..4 : <<thresholds_mu, watched_mu, g_state_mu, g_alert_mu>>[n] = th}

\* no thread holds two mutexes, and a thread that is about to take one
\* holds none
OneLockAtATime ==
    /\ \A th \in Threads : Cardinality(HeldBy(th)) <= 1
    /\ p_pc \in {"copy_t", "copy_w", "write_m", "count"} => HeldBy("poller") = {}
    /\ \A w \in Workers : req[w].pc \in {"idle", "al_read_m"} => HeldBy(w) = {}

\* C24 as stated: no thread of the control plane ever holds two of
\* thresholds_mu, watched_mu, g_state_mu and g_alert_mu, or takes one while
\* it holds another; and under fair scheduling of the poller, main and the
\* handlers every mutex that is held is eventually free again
C24_OneLockAndReleased ==
    /\ []OneLockAtATime
    /\ (thresholds_mu # "free") ~> (thresholds_mu = "free")
    /\ (watched_mu # "free") ~> (watched_mu = "free")
    /\ (g_state_mu # "free") ~> (g_state_mu = "free")
    /\ (g_alert_mu # "free") ~> (g_alert_mu = "free")
=============================================================================
